---- MODULE Spec2Model ----
(***************************************************************************)
(* A model of the PDF question-answering pipeline:                         *)
(*   src/src/rag/pdf_processor.py  garbled-text heuristic, extraction      *)
(*                                 fallback chain, load_pdf_documents      *)
(*   src/src/rag/vector_store.py   setup_vector_store                      *)
(*   src/src/rag/rag_graph.py      the per-turn graph and its three nodes  *)
(*   src/src/rag/runtime.py        start-up wiring                         *)
(*                                                                         *)
(* Four specifications share the module:                                   *)
(*   SpecGarbled  the heuristic applied to one text                        *)
(*   SpecIngest   one run of load_pdf_documents followed by start-up       *)
(*   SpecStore    setup_vector_store on every input within the bounds      *)
(*   Spec         start-up followed by conversation turns                  *)
(***************************************************************************)
EXTENDS Integers, Sequences, FiniteSets, TLC

VARIABLES
    \* ---- SpecGarbled
    probe,          \* the text under test and the heuristic's verdict
    \* ---- SpecIngest
    on_disk,        \* the paths for which os.path.isfile is true
    requested,      \* the caller's file_paths
    file_paths,     \* the paths load_pdf_documents processes (valid_paths)
    lpc,            \* position in load_pdf_documents
    file_idx,       \* index of the file being processed
    page_count,     \* pages of the open file
    page_idx,       \* page.number of the next page
    all_docs,       \* the passages accumulated so far
    last_extract,   \* log of the latest extract_text_from_page call
    failed,         \* files whose processing raised
    contrib,        \* per file, the page texts chunked for it so far
    \* ---- setup_vector_store
    documents,      \* the argument of setup_vector_store
    persist0,       \* the persisted directory before setup_vector_store
    persist,        \* the persisted directory now
    store,          \* what setup_vector_store did and returned
    \* ---- the graph
    sessions,       \* the checkpointer: per thread_id, the saved RagState
    next_id,        \* message ids handed out so far
    pc,             \* the node about to run, or "idle" between turns
    turn,           \* log of the turn in progress or just ended
    hist            \* per thread_id, the turns invoked on it so far

gvars == <<probe>>
ivars == <<on_disk, requested, file_paths, lpc, file_idx, page_count, page_idx,
           all_docs, last_extract, failed, contrib>>
svars == <<documents, persist0, persist, store>>
tvars == <<sessions, next_id, pc, turn, hist>>
vars == <<gvars, ivars, svars, tvars>>

(***************************************************************************)
(* Texts.  The heuristic only counts characters by class, so a text is     *)
(* the number of its alphanumeric characters, of its ASCII control         *)
(* characters (0x00-0x1F, 0x7F) and of its other characters; "missing" is  *)
(* Python's None.                                                          *)
(***************************************************************************)
Text(a, c, o) == [missing |-> FALSE, alnum |-> a, ctrl |-> c, other |-> o]
NoneText == [missing |-> TRUE, alnum |-> 0, ctrl |-> 0, other |-> 0]
TextLen(t) == t.alnum + t.ctrl + t.other
\* Python truthiness of a str-or-None.
Falsy(t) == t.missing \/ TextLen(t) = 0

GarbledMinLen == 100
ControlCharLimit == 10
\* The literal 0.1 as a fraction.
RatioThreshold == <<1, 10>>
\* p < q for fractions with positive denominators.
RatioLess(p, q) == p[1] * q[2] < q[1] * p[2]

is_garbled_ctrl_ge(text) ==
    IF Falsy(text) \/ TextLen(text) < GarbledMinLen THEN TRUE
    ELSE LET alpha_count == text.alnum
             non_alpha_count == text.ctrl + text.other
             ratio == IF non_alpha_count # 0
                      THEN <<alpha_count, non_alpha_count>> ELSE <<1, 1>>
             control_chars == text.ctrl
         IN  IF RatioLess(ratio, RatioThreshold) THEN TRUE
             ELSE IF control_chars >= ControlCharLimit THEN TRUE
             ELSE FALSE

is_likely_garbled_pdf_text(text) ==
    IF Falsy(text) \/ TextLen(text) < GarbledMinLen THEN TRUE
    ELSE LET alpha_count == text.alnum
             non_alpha_count == text.ctrl + text.other
             ratio == IF non_alpha_count # 0
                      THEN <<alpha_count, non_alpha_count>> ELSE <<1, 1>>
             control_chars == text.ctrl
         IN  IF RatioLess(ratio, RatioThreshold) THEN TRUE
             ELSE IF control_chars > ControlCharLimit THEN TRUE
             ELSE FALSE

(***************************************************************************)
(* Extraction fallback chain.  An extractor call either raises or returns  *)
(* a text; what the three extractors give for a page is the environment's  *)
(* choice.                                                                 *)
(***************************************************************************)
Returns(t) == [called |-> TRUE, raises |-> FALSE, text |-> t]
Raises == [called |-> TRUE, raises |-> TRUE, text |-> NoneText]
NotCalled == [called |-> FALSE, raises |-> FALSE, text |-> NoneText]

\* The result of extract_text_from_page: whether it raised, the text it
\* returned, which attempt the text is from, and which extractors ran.
Extracted(raised, text, via, sec, ocr) ==
    [raised |-> raised, pdf_text |-> text, via |-> via,
     sec_called |-> sec, ocr_called |-> ocr]

\* Variant: an OCR error keeps the primary extractor's text.
extract_ocr_error_keeps_primary(primary, secondary, ocr) ==
    IF is_likely_garbled_pdf_text(primary)
    THEN IF secondary.raises
         THEN Extracted(TRUE, NoneText, "none", TRUE, FALSE)
         ELSE IF is_likely_garbled_pdf_text(secondary.text)
              THEN IF ocr.raises
                   THEN Extracted(FALSE, primary, "fallback", TRUE, TRUE)
                   ELSE Extracted(FALSE, ocr.text, "ocr", TRUE, TRUE)
              ELSE Extracted(FALSE, secondary.text, "secondary", TRUE, FALSE)
    ELSE Extracted(FALSE, primary, "primary", FALSE, FALSE)

\* Variant: the secondary extractor's text is accepted without being judged.
extract_secondary_unjudged(primary, secondary, ocr) ==
    IF is_likely_garbled_pdf_text(primary)
    THEN IF secondary.raises
         THEN Extracted(TRUE, NoneText, "none", TRUE, FALSE)
         ELSE Extracted(FALSE, secondary.text, "secondary", TRUE, FALSE)
    ELSE Extracted(FALSE, primary, "primary", FALSE, FALSE)

extract_text_from_page(primary, secondary, ocr) ==
    IF is_likely_garbled_pdf_text(primary)
    THEN IF secondary.raises
         THEN Extracted(TRUE, NoneText, "none", TRUE, FALSE)
         ELSE IF is_likely_garbled_pdf_text(secondary.text)
              THEN IF ocr.raises
                   THEN Extracted(FALSE, secondary.text, "fallback", TRUE, TRUE)
                   ELSE Extracted(FALSE, ocr.text, "ocr", TRUE, TRUE)
              ELSE Extracted(FALSE, secondary.text, "secondary", TRUE, FALSE)
    ELSE Extracted(FALSE, primary, "primary", FALSE, FALSE)

(***************************************************************************)
(* Chunking.  pdf_splitter.split_text is the library's recursive splitter; *)
(* the model keeps what load_pdf_documents depends on: a missing text      *)
(* raises, an empty text gives no chunk, a text of at most CHUNK_SIZE      *)
(* characters gives one, a longer one gives overlapping windows.           *)
(***************************************************************************)
CHUNK_SIZE == 800
CHUNK_OVERLAP == 200

NumChunks(n) ==
    IF n = 0 THEN 0
    ELSE IF n <= CHUNK_SIZE THEN 1
    ELSE LET stride == CHUNK_SIZE - CHUNK_OVERLAP
             rest == n - CHUNK_SIZE
         IN  1 + ((rest + stride - 1) \div stride)

\* file_path.split("/")[-1]
Basename(file_path) ==
    CASE file_path = "data/a.pdf" -> "a.pdf"
      [] file_path = "data/b.pdf" -> "b.pdf"
      [] OTHER -> file_path

\* The Documents made from one page: one per chunk, with 1-based page
\* metadata.  "via" is bookkeeping: the extraction attempt the text is from.
PageDocs(file_path, page_num, ex) ==
    [i \in 1..NumChunks(TextLen(ex.pdf_text)) |->
        [page_content |-> [text |-> ex.pdf_text, chunk |-> i],
         page |-> page_num + 1,
         source |-> Basename(file_path),
         via |-> ex.via]]

(***************************************************************************)
(* setup_vector_store.  The persisted directory either does not exist or   *)
(* holds a set of passages.  The environment decides how shutil.rmtree,    *)
(* the embedding service and BM25Retriever.from_documents([]) behave.      *)
(***************************************************************************)
RangeOf(seq) == {seq[i] : i \in 1..Len(seq)}

NoDir == [exists |-> FALSE, docs |-> {}]
Dir(docs) == [exists |-> TRUE, docs |-> docs]

\* The documents argument: None, or a list.
NoDocuments == [given |-> FALSE, docs |-> <<>>]
Documents(docs) == [given |-> TRUE, docs |-> docs]
\* `documents and len(documents) > 0`
HasDocuments(d) == d.given /\ Len(d.docs) > 0

DocSet(d) == {d.docs[i] : i \in 1..Len(d.docs)}

\* rmtree: works, works on the retry after a PermissionError, or raises on
\* the retry too.  embed: Chroma.from_documents succeeds.  bm25_empty:
\* BM25Retriever.from_documents([]) returns a retriever over nothing (it
\* raises otherwise: the call unpacks zip(*...) of no documents and
\* rank_bm25 divides by the corpus size).
SetupEnvs ==
    [rmtree : {"ok", "retry_ok", "raises"}, embed : BOOLEAN, bm25_empty : BOOLEAN]

\* The environments that differ in a call the code reaches: rmtree runs
\* only over an existing directory when documents are supplied, the
\* embedding of documents only when there are some, the empty BM25
\* construction only when there are none.
EnvsFor(d, dir) ==
    {env \in SetupEnvs :
        /\ (HasDocuments(d) /\ dir.exists) \/ env.rmtree = "ok"
        /\ HasDocuments(d) \/ env.embed
        /\ ~HasDocuments(d) \/ env.bm25_empty}

SetupResult(status, cause, dir, db, semantic, bm25, log) ==
    [status |-> status, cause |-> cause, dir |-> dir, db |-> db,
     semantic |-> semantic, bm25 |-> bm25, log |-> log]

NoStore == SetupResult("none", "", NoDir, {}, {}, {}, <<>>)

\* Lines 70-85: the semantic retriever over db, the BM25 one over documents.
BuildRetrievers(d, dir, db, log, env) ==
    IF HasDocuments(d)
    THEN SetupResult("ok", "", dir, db, db, DocSet(d), log)
    ELSE IF env.bm25_empty
         THEN SetupResult("ok", "", dir, db, db, {}, log)
         ELSE SetupResult("raised", "bm25", dir, db, db, {}, log)

\* Lines 43-51: Chroma.from_documents into the directory as it is now.
CreateIndex(d, dir, log, env) ==
    IF env.embed
    THEN LET db == dir.docs \cup DocSet(d)
         IN  BuildRetrievers(d, Dir(db), db, Append(log, "create"), env)
    ELSE SetupResult("raised", "embed", Dir(dir.docs), {}, {}, {},
                     Append(log, "create"))

\* Variant: the existing directory is kept when new documents arrive.
setup_keeps_directory(d, dir, env) ==
    IF HasDocuments(d)
    THEN CreateIndex(d, dir, <<>>, env)
    ELSE IF dir.exists
         THEN BuildRetrievers(d, dir, dir.docs, <<"load">>, env)
         ELSE BuildRetrievers(d, Dir({}), {}, <<"open_empty">>, env)

setup_vector_store(d, dir, env) ==
    IF HasDocuments(d)
    THEN IF dir.exists
         THEN CASE env.rmtree = "ok" ->
                     CreateIndex(d, NoDir, <<"rmtree">>, env)
                [] env.rmtree = "retry_ok" ->
                     CreateIndex(d, NoDir, <<"rmtree", "rmtree">>, env)
                [] OTHER ->
                     SetupResult("raised", "rmtree", dir, {}, {}, {},
                                 <<"rmtree", "rmtree">>)
         ELSE CreateIndex(d, dir, <<>>, env)
    ELSE IF dir.exists
         THEN BuildRetrievers(d, dir, dir.docs, <<"load">>, env)
         ELSE BuildRetrievers(d, Dir({}), {}, <<"open_empty">>, env)

IdleStore ==
    /\ documents = NoDocuments
    /\ persist0 = NoDir
    /\ persist = NoDir
    /\ store = NoStore

(***************************************************************************)
(* The graph.  Strings are sequences of tokens, "" being <<>>.  A channel  *)
(* that holds no value yet reads as "" or [] through state.get, so the     *)
(* state of a new thread is the blank one.                                 *)
(***************************************************************************)
Blank == <<>>
HumanMessage(content) == [type |-> "human", content |-> content, id |-> 0]
AIMessage(content) == [type |-> "ai", content |-> content, id |-> 0]

BlankState ==
    [messages |-> <<>>, original_query |-> Blank, rewritten_query |-> Blank,
     retrieved_docs |-> <<>>, context |-> Blank, output |-> Blank]

\* add_messages gives a message without an id a fresh one (a uuid).
Unnumbered(msgs, i) == Cardinality({j \in 1..i : msgs[j].id = 0})
WithIds(msgs, base) ==
    [i \in 1..Len(msgs) |->
        IF msgs[i].id = 0 THEN [msgs[i] EXCEPT !.id = base + Unnumbered(msgs, i)]
        ELSE msgs[i]]

\* One message merged into a list: it replaces the message of the same id,
\* or is appended.
MergeOne(left, m) ==
    IF \E i \in 1..Len(left) : left[i].id = m.id
    THEN [i \in 1..Len(left) |-> IF left[i].id = m.id THEN m ELSE left[i]]
    ELSE Append(left, m)

RECURSIVE MergeAll(_, _)
MergeAll(left, right) ==
    IF right = <<>> THEN left
    ELSE MergeAll(MergeOne(left, Head(right)), Tail(right))

\* Variant: the reducer concatenates (operator.add).
add_messages_concat(left, right, base) == left \o WithIds(right, base)

\* The reducer of RagState.messages.
add_messages(left, right, base) == MergeAll(left, WithIds(right, base))

\* A node's return value (or invoke's input) written to the channels:
\* messages through its reducer, every other key overwritten.
ApplyWrites(state, writes, base) ==
    [k \in DOMAIN state |->
        IF k \in DOMAIN writes
        THEN IF k = "messages"
             THEN add_messages(state.messages, writes.messages, base)
             ELSE writes[k]
        ELSE state[k]]

IdsUsed(writes) ==
    IF "messages" \in DOMAIN writes
    THEN Unnumbered(writes.messages, Len(writes.messages)) ELSE 0

\* "\n\n".join(doc.page_content for doc in docs)
RECURSIVE format_docs(_)
format_docs(docs) ==
    IF docs = <<>> THEN Blank
    ELSE IF Len(docs) = 1 THEN <<Head(docs)>>
    ELSE <<Head(docs), "\n\n">> \o format_docs(Tail(docs))

\* The content of the last HumanMessage, None (here "") when there is none.
LastHuman(msgs) ==
    LET humans == {i \in 1..Len(msgs) : msgs[i].type = "human"}
    IN  IF humans = {} THEN Blank
        ELSE msgs[CHOOSE i \in humans : \A j \in humans : j <= i].content

\* query_rewrite_node, lines 60-68.
LastQuestion(state) ==
    IF LastHuman(state.messages) # Blank THEN LastHuman(state.messages)
    ELSE state.original_query

\* query_rewrite_node, lines 72-78: what the rewrite chain is invoked with.
RewriteInput(state) ==
    [human_question |-> LastQuestion(state),
     ai_human_session_conversation |-> state.messages]

\* Variant: the node leaves rewritten_query as it found it.
query_rewrite_keeps_rewritten(state, rewritten) ==
    [original_query |-> LastQuestion(state),
     messages |-> state.messages]

query_rewrite_node(state, rewritten) ==
    [original_query |-> LastQuestion(state),
     rewritten_query |-> rewritten,
     messages |-> state.messages]

\* retrieve_docs_node, lines 95-102: the query handed to the retriever.
RetrievalQuery(state) ==
    LET query == IF state.rewritten_query # Blank THEN state.rewritten_query
                 ELSE state.original_query
    IN  IF query = Blank THEN LastHuman(state.messages) ELSE query

\* Variant: the passages are stored but the context is not rebuilt.
retrieve_docs_keeps_context(state, retrieved_docs) ==
    [retrieved_docs |-> retrieved_docs]

retrieve_docs_node(state, retrieved_docs) ==
    [retrieved_docs |-> retrieved_docs,
     context |-> format_docs(retrieved_docs)]

\* agent_node, lines 122-150: what the generation call is invoked with.
GenerationInput(state) ==
    [context |-> state.context, messages |-> state.messages]

agent_node(state, response) ==
    [messages |-> <<AIMessage(response)>>, output |-> response]

\* create_rag_graph: the entry point and the edges.
EntryPoint == "QUERY_REWRITE"

\* Variant: QUERY_REWRITE is wired straight to AGENT.
EdgeSkipsRetrieve(node) ==
    CASE node = "QUERY_REWRITE" -> "AGENT"
      [] node = "RETRIEVE_DOCS" -> "AGENT"
      [] node = "AGENT" -> "END"

Edge(node) ==
    CASE node = "QUERY_REWRITE" -> "RETRIEVE_DOCS"
      [] node = "RETRIEVE_DOCS" -> "AGENT"
      [] node = "AGENT" -> "END"

NoTurn ==
    [session |-> "", query |-> Blank, variant |-> "", trace |-> <<>>,
     completed |-> <<>>, outcome |-> "none", rewrite_calls |-> <<>>,
     retrieve_calls |-> <<>>, gen_calls |-> <<>>]

NoHistory == [expected |-> <<>>, clean |-> TRUE, turns |-> 0]

IdleGraph ==
    /\ sessions = [s \in {"s1", "s2"} |-> BlankState]
    /\ next_id = 0
    /\ turn = NoTurn
    /\ hist = [s \in {"s1", "s2"} |-> NoHistory]

(***************************************************************************)
(* SpecGarbled: the heuristic on every text within the bounds.             *)
(***************************************************************************)
MaxAlnum == 101
MaxCtrl == 12
MaxOther == 101

ProbeTexts ==
    {NoneText} \cup
    {Text(a, c, o) : a \in 0..MaxAlnum, c \in 0..MaxCtrl, o \in 0..MaxOther}

NoExtract ==
    [called |-> FALSE, primary |-> NoneText, secondary |-> NotCalled,
     ocr |-> NotCalled, result |-> Extracted(FALSE, NoneText, "none", FALSE, FALSE)]

IdleIngest ==
    /\ on_disk = {}
    /\ requested = <<>>
    /\ file_paths = <<>>
    /\ lpc = "off"
    /\ file_idx = 0
    /\ page_count = 0
    /\ page_idx = 0
    /\ all_docs = <<>>
    /\ last_extract = NoExtract
    /\ failed = {}
    /\ contrib = <<>>

InitGarbled ==
    /\ probe \in {[text |-> t, judged |-> FALSE, verdict |-> FALSE] : t \in ProbeTexts}
    /\ IdleIngest
    /\ IdleStore
    /\ IdleGraph
    /\ pc = "off"

Judge ==
    /\ ~probe.judged
    /\ probe' = [probe EXCEPT !.judged = TRUE,
                              !.verdict = is_likely_garbled_pdf_text(probe.text)]
    /\ UNCHANGED <<ivars, svars, tvars>>

NextGarbled == Judge

SpecGarbled == InitGarbled /\ [][NextGarbled]_vars

\* C3: the heuristic answers true exactly when the text is missing, empty or
\* shorter than 100 characters, or has a non-zero number of non-alphanumeric
\* characters more than ten times its alphanumeric ones, or holds more than
\* 10 control characters; with no non-alphanumeric character only the length
\* decides, and more than 10 control characters always give true.
C3_GarbledExactly ==
    probe.judged =>
        LET t == probe.text
            n == IF t.missing THEN 0 ELSE TextLen(t)
            non_alnum == t.ctrl + t.other
            a == t.missing \/ n = 0 \/ n < 100
            b == non_alnum # 0 /\ 10 * t.alnum < non_alnum
            c == t.ctrl > 10
        IN  /\ probe.verdict <=> (a \/ b \/ c)
            /\ (~t.missing /\ non_alnum = 0) => (probe.verdict <=> n < 100)
            /\ (~t.missing /\ t.ctrl > 10) => probe.verdict

\* A text of 100 characters or more with a healthy ratio and 11 control
\* characters has been judged garbled.
C3_Witness ==
    /\ probe.judged
    /\ probe.verdict
    /\ TextLen(probe.text) >= 100
    /\ probe.text.ctrl = 11
    /\ probe.text.alnum >= probe.text.ctrl + probe.text.other

(***************************************************************************)
(* SpecIngest: load_pdf_documents, one step per file opened and per page.  *)
(***************************************************************************)
MaxPages == 2

FilePaths == {"data/a.pdf", "data/b.pdf"}

EmptyText == Text(0, 0, 0)
ShortText == Text(40, 2, 8)
NoisyText == Text(300, 30, 70)
CleanText == Text(800, 8, 192)

\* What page.get_text(), pdfplumber and tesseract can give for a page.
PrimaryOutcomes == {Returns(EmptyText), Returns(CleanText)}
SecondaryOutcomes ==
    {Returns(NoisyText), Returns(CleanText), Returns(NoneText), Raises}
OcrOutcomes == {Returns(ShortText), Returns(CleanText), Raises}

\* The extractor outcomes of one page, an extractor the chain does not
\* reach being NotCalled.
PageBehaviours ==
    {b \in PrimaryOutcomes \X (SecondaryOutcomes \cup {NotCalled})
                           \X (OcrOutcomes \cup {NotCalled}) :
        LET ex == extract_text_from_page(b[1].text, b[2], b[3])
        IN  /\ b[2].called <=> ex.sec_called
            /\ b[3].called <=> ex.ocr_called}

\* Sequences without repetition over a set of paths.
RECURSIVE Orderings(_)
Orderings(S) ==
    IF S = {} THEN {<<>>}
    ELSE UNION {{<<x>> \o rest : rest \in Orderings(S \ {x})} : x \in S}

\* A caller's request: explicit file_paths, some of which may not exist,
\* or none (the PDFs of the data directory, in the order glob gives them).
Requests == {[given |-> TRUE, paths |-> <<"data/a.pdf", "data/b.pdf">>],
             [given |-> FALSE, paths |-> <<>>]}

NoContrib == [f \in FilePaths |-> [pages |-> 0, texts |-> <<>>]]

InitIngest ==
    /\ probe = [text |-> NoneText, judged |-> TRUE, verdict |-> TRUE]
    /\ on_disk \in SUBSET FilePaths
    /\ requested \in Requests
    /\ file_paths = <<>>
    /\ lpc = "start"
    /\ file_idx = 0
    /\ page_count = 0
    /\ page_idx = 0
    /\ all_docs = <<>>
    /\ last_extract = NoExtract
    /\ failed = {}
    /\ contrib = NoContrib
    /\ IdleStore
    /\ IdleGraph
    /\ pc = "off"

\* Lines 77-108: the paths to process, or an early return with no passage.
ValidPaths(paths) == SelectSeq(paths, LAMBDA path : path \in on_disk)

SelectFiles ==
    /\ lpc = "start"
    /\ \E found \in (IF requested.given
                     THEN {ValidPaths(requested.paths)}
                     ELSE Orderings(on_disk)) :
          /\ file_paths' = found
          /\ IF found = <<>>
             THEN lpc' = "done" /\ file_idx' = 0
             ELSE lpc' = "open" /\ file_idx' = 1
    /\ UNCHANGED <<tvars, svars, probe, on_disk, requested, page_count, page_idx, all_docs,
                   last_extract, failed, contrib>>

\* After a file is finished or skipped: the next one, or the return.
AfterFile(next_pc, next_idx) ==
    IF file_idx < Len(file_paths)
    THEN next_pc = "open" /\ next_idx = file_idx + 1
    ELSE next_pc = "done" /\ next_idx = file_idx

\* fitz.open succeeds and the page loop begins.
OpenFile ==
    /\ lpc = "open"
    /\ \E n \in 1..MaxPages :
          /\ page_count' = n
          /\ contrib' = [contrib EXCEPT ![file_paths[file_idx]].pages = n]
    /\ page_idx' = 0
    /\ lpc' = "page"
    /\ UNCHANGED <<tvars, svars, probe, on_disk, requested, file_paths, file_idx, all_docs,
                   last_extract, failed>>

\* fitz.open raises: the except clause prints and continues.
OpenFails ==
    /\ lpc = "open"
    /\ failed' = failed \cup {file_paths[file_idx]}
    /\ AfterFile(lpc', file_idx')
    /\ UNCHANGED <<tvars, svars, probe, on_disk, requested, file_paths, page_count, page_idx,
                   all_docs, last_extract, contrib>>

ExtractLog(primary, secondary, ocr, ex) ==
    [called |-> TRUE, primary |-> primary,
     secondary |-> secondary, ocr |-> ocr,
     result |-> ex]

\* One iteration of the page loop: extract, split, extend all_docs; after
\* the last page the file is closed.  An error in extraction or in
\* split_text leaves the loop for the except clause of the file.
ProcessPage ==
    /\ lpc = "page"
    /\ \E b \in PageBehaviours :
          LET file_path == file_paths[file_idx]
              primary == b[1].text
              secondary == b[2]
              ocr == b[3]
              ex == extract_text_from_page(primary, secondary, ocr)
              split_raises == ~ex.raised /\ ex.pdf_text.missing
          IN  /\ last_extract' = ExtractLog(primary, secondary, ocr, ex)
              /\ IF ex.raised \/ split_raises
                 THEN /\ failed' = failed \cup {file_path}
                      /\ AfterFile(lpc', file_idx')
                      /\ UNCHANGED <<all_docs, page_idx, contrib>>
                 ELSE /\ all_docs' = all_docs \o PageDocs(file_path, page_idx, ex)
                      /\ contrib' = [contrib EXCEPT ![file_path].texts =
                                        Append(@, [pdf_text |-> ex.pdf_text, via |-> ex.via])]
                      /\ page_idx' = page_idx + 1
                      /\ IF page_idx + 1 < page_count
                         THEN lpc' = "page" /\ file_idx' = file_idx
                         ELSE AfterFile(lpc', file_idx')
                      /\ UNCHANGED failed
    /\ UNCHANGED <<tvars, svars, probe, on_disk, requested, file_paths, page_count>>

\* runtime.py: the passages go to setup_vector_store, None standing for an
\* empty list.
RuntimeSetup ==
    /\ lpc = "done"
    /\ LET d == IF all_docs # <<>> THEN Documents(all_docs) ELSE NoDocuments
       IN  \E env \in EnvsFor(d, persist) :
          LET res == setup_vector_store(d, persist, env)
          IN  /\ documents' = d
              /\ store' = res
              /\ persist' = res.dir
    /\ lpc' = "started"
    /\ UNCHANGED <<tvars, persist0, probe, on_disk, requested, file_paths, file_idx,
                   page_count, page_idx, all_docs, last_extract, failed, contrib>>

NextIngest ==
    \/ SelectFiles
    \/ OpenFile
    \/ OpenFails
    \/ ProcessPage
    \/ RuntimeSetup

SpecIngest == InitIngest /\ [][NextIngest]_vars

Garbled(t) == is_likely_garbled_pdf_text(t)

\* The part of the fallback chain that C2 and its amendment share: which
\* extractors run, and what is returned when OCR raises.
ChainOrder(log) ==
    /\ log.secondary.called <=> Garbled(log.primary)
    /\ log.ocr.called <=> /\ Garbled(log.primary)
                          /\ log.secondary.called
                          /\ ~log.secondary.raises
                          /\ Garbled(log.secondary.text)
    /\ (log.ocr.called /\ log.ocr.raises) =>
           /\ ~log.result.raised
           /\ log.result.pdf_text = log.secondary.text
           /\ Garbled(log.result.pdf_text)

\* C2 as stated: the extractors run in the order primary, secondary, OCR,
\* each only when all earlier outputs were judged garbled, and the text
\* returned is the first output judged non-garbled, except that an OCR error
\* returns the secondary extractor's garbled output.
C2_ReturnsFirstNonGarbled ==
    last_extract.called =>
        /\ ChainOrder(last_extract)
        /\ (~last_extract.result.raised
            /\ ~(last_extract.ocr.called /\ last_extract.ocr.raises)) =>
               ~Garbled(last_extract.result.pdf_text)

\* C2 amended: as C2, but the OCR output is returned as it is, without being
\* judged: the text returned is the primary output if judged non-garbled,
\* else the secondary output if judged non-garbled, else the OCR output
\* whatever it is, else (OCR raised) the secondary output.
C2_ChainReturns ==
    last_extract.called =>
        LET log == last_extract
            res == log.result
        IN  /\ ChainOrder(log)
            /\ ~Garbled(log.primary) =>
                   ~res.raised /\ res.pdf_text = log.primary
            /\ (Garbled(log.primary) /\ ~log.secondary.raises
                /\ ~Garbled(log.secondary.text)) =>
                   ~res.raised /\ res.pdf_text = log.secondary.text
            /\ (log.ocr.called /\ ~log.ocr.raises) =>
                   ~res.raised /\ res.pdf_text = log.ocr.text

\* OCR raised on a page whose two earlier outputs were garbled, and the
\* secondary extractor's text came back.
C2_Witness ==
    /\ last_extract.called
    /\ last_extract.ocr.called
    /\ last_extract.ocr.raises
    /\ last_extract.result.pdf_text = NoisyText
    /\ last_extract.primary = EmptyText

\* C4 as stated: every passage comes from a page text judged non-garbled,
\* or from the secondary extractor's output kept because OCR failed.
C4_NoGarbledPassage ==
    \A d \in RangeOf(all_docs) \cup store.db :
        ~Garbled(d.page_content.text) \/ d.via = "fallback"

\* C4 amended: every passage comes from a primary or secondary output that
\* was judged non-garbled, or from the OCR output (accepted without being
\* judged), or from the secondary output kept because OCR failed; the same
\* holds of the passages start-up places in the index.
C4_PassageOrigins ==
    \A d \in RangeOf(all_docs) \cup store.db :
        \/ d.via \in {"primary", "secondary"} /\ ~Garbled(d.page_content.text)
        \/ d.via = "ocr"
        \/ d.via = "fallback"

\* The run is over and holds both a passage of a garbled OCR output and a
\* passage of a last-resort secondary output.
C4_Witness ==
    /\ lpc = "started"
    /\ store.status = "ok"
    /\ store.db = RangeOf(all_docs)
    /\ \E d \in RangeOf(all_docs) : d.via = "ocr" /\ Garbled(d.page_content.text)
    /\ \E d \in RangeOf(all_docs) : d.via = "fallback"
    /\ \E d \in RangeOf(all_docs) : d.via = "secondary"

\* The passages a file's chunked pages amount to.
RECURSIVE ExpectedDocs(_, _, _)
ExpectedDocs(file_path, texts, k) ==
    IF k > Len(texts) THEN <<>>
    ELSE PageDocs(file_path, k - 1, texts[k]) \o ExpectedDocs(file_path, texts, k + 1)

DocsOf(file_path) ==
    SelectSeq(all_docs, LAMBDA d : d.source = Basename(file_path))

\* C5: when load_pdf_documents returns, a file whose processing raised (at
\* open time or on any page) has contributed no passage, and every other
\* file has contributed the passages of all its pages.
C5_FailedFileSkipped ==
    lpc \in {"done", "started"} =>
        \A i \in 1..Len(file_paths) :
            LET f == file_paths[i]
            IN  IF f \in failed
                THEN DocsOf(f) = <<>>
                ELSE /\ Len(contrib[f].texts) = contrib[f].pages
                     /\ DocsOf(f) = ExpectedDocs(f, contrib[f].texts, 1)

\* The half of C5 the code keeps: files that did not fail are complete, and
\* the run always reaches its return.
IngestOtherFilesComplete ==
    lpc \in {"done", "started"} =>
        \A i \in 1..Len(file_paths) :
            LET f == file_paths[i]
            IN  f \notin failed =>
                    /\ Len(contrib[f].texts) = contrib[f].pages
                    /\ DocsOf(f) = ExpectedDocs(f, contrib[f].texts, 1)

(***************************************************************************)
(* Spec: start-up (setup_vector_store, create_rag_graph) and then turns,   *)
(* one step per node, the checkpointer saving the state after each.        *)
(***************************************************************************)
MaxDocs == 2
MaxTurns == 2

\* page_content of the passages: those ingested now, one indexed earlier.
Passage(i) == <<"passage", i>>
OldPassage == <<"passage", 0>>
Passages == {Passage(i) : i \in 1..MaxDocs}
SessionIds == DOMAIN sessions
Queries == {Blank, <<"q1">>}
\* What the model can answer to the rewrite prompt, and what it answers to
\* the agent prompt of the k-th turn.
Rewrites == {Blank, <<"rw">>}
Answers(k) == {<<"answer", k>>}
\* Fields a caller may put in the input state instead of blanks.
CallerContext == <<"caller context">>
CallerRewrite == <<"caller rewrite">>

DocLists == UNION {Orderings(S) : S \in SUBSET Passages}
DocInputs == {NoDocuments} \cup {Documents(l) : l \in DocLists}
PriorDirs == {NoDir, Dir({}), Dir({OldPassage}), Dir({OldPassage, Passage(1)})}

\* runtime.py hands setup_vector_store None or a non-empty list.
RuntimeInputs == {NoDocuments, Documents(<<Passage(1), Passage(2)>>)}
RuntimeDirs == {NoDir, Dir({OldPassage, Passage(1)})}

InitStore ==
    /\ probe = [text |-> NoneText, judged |-> TRUE, verdict |-> TRUE]
    /\ IdleIngest
    /\ documents \in DocInputs
    /\ persist0 \in PriorDirs
    /\ persist = persist0
    /\ store = NoStore
    /\ IdleGraph
    /\ pc = "boot"

Init ==
    /\ probe = [text |-> NoneText, judged |-> TRUE, verdict |-> TRUE]
    /\ IdleIngest
    /\ documents \in RuntimeInputs
    /\ persist0 \in RuntimeDirs
    /\ persist = persist0
    /\ store = NoStore
    /\ IdleGraph
    /\ pc = "boot"

\* runtime.py: setup_vector_store, then create_rag_graph; an error ends
\* the import and there is no graph to invoke.
Setup ==
    /\ pc = "boot"
    /\ \E env \in EnvsFor(documents, persist) :
          LET res == setup_vector_store(documents, persist, env)
          IN  /\ store' = res
              /\ persist' = res.dir
              /\ pc' = IF res.status = "ok" THEN "idle" ELSE "crashed"
    /\ UNCHANGED <<gvars, ivars, documents, persist0, sessions, next_id, turn, hist>>

\* The input state of a call: as run_chatbot.py and example_usage.py build
\* it, with the messages alone, or with fields of the caller's own.
InputState(query, variant) ==
    CASE variant = "blank" ->
            [messages |-> <<HumanMessage(query)>>, original_query |-> query,
             rewritten_query |-> Blank, retrieved_docs |-> <<>>,
             context |-> Blank, output |-> Blank]
      [] variant = "messages_only" ->
            [messages |-> <<HumanMessage(query)>>]
      [] variant = "caller_fields" ->
            [messages |-> <<HumanMessage(query)>>, original_query |-> query,
             rewritten_query |-> CallerRewrite, retrieved_docs |-> <<>>,
             context |-> CallerContext, output |-> Blank]

TurnsStarted == hist["s1"].turns + hist["s2"].turns

\* app_graph.invoke(state, config): the input is written to the thread's
\* channels and the entry point is scheduled.
Invoke ==
    /\ pc = "idle"
    /\ TurnsStarted < MaxTurns
    /\ \E s \in SessionIds, query \in Queries,
          variant \in {"blank", "messages_only", "caller_fields"} :
          LET writes == InputState(query, variant)
          IN  /\ sessions' = [sessions EXCEPT ![s] = ApplyWrites(@, writes, next_id)]
              /\ next_id' = next_id + IdsUsed(writes)
              /\ turn' = [NoTurn EXCEPT !.session = s, !.query = query,
                                        !.variant = variant, !.outcome = "running"]
              /\ hist' = [hist EXCEPT ![s].turns = @ + 1,
                             ![s].expected = Append(@, <<"human", query>>)]
    /\ pc' = EntryPoint
    /\ UNCHANGED <<gvars, ivars, svars>>

\* A node raised: the turn is over and invoke raises to its caller; the
\* thread keeps the state saved after the last completed node.
NodeRaises(log) ==
    /\ turn' = [log EXCEPT !.outcome = "error"]
    /\ hist' = [hist EXCEPT ![turn.session].clean = FALSE]
    /\ pc' = "idle"
    /\ UNCHANGED <<sessions, next_id>>

\* A node returned: its writes are applied and saved, and the edge leaving
\* the node names what runs next.
NodeReturns(log, writes) ==
    LET s == turn.session
        next == Edge(pc)
    IN  /\ sessions' = [sessions EXCEPT ![s] = ApplyWrites(@, writes, next_id)]
        /\ next_id' = next_id + IdsUsed(writes)
        /\ turn' = [log EXCEPT !.completed = Append(@, pc),
                               !.outcome = IF next = "END" THEN "END" ELSE @]
        /\ pc' = IF next = "END" THEN "idle" ELSE next

CallResults(values) ==
    {[raises |-> FALSE, value |-> v] : v \in values}
        \cup {[raises |-> TRUE, value |-> Blank]}

QueryRewrite ==
    /\ pc = "QUERY_REWRITE"
    /\ \E out \in CallResults(Rewrites) :
          LET state == sessions[turn.session]
              log == [turn EXCEPT !.trace = Append(@, pc),
                         !.rewrite_calls = Append(@, [input |-> RewriteInput(state),
                                                      out |-> out])]
          IN  IF out.raises
              THEN NodeRaises(log)
              ELSE /\ NodeReturns(log, query_rewrite_node(state, out.value))
                   /\ UNCHANGED hist
    /\ UNCHANGED <<gvars, ivars, svars>>

\* What the two retrievers find: each returns RETRIEVAL_K of its passages,
\* or all of them when it has no more than that, and the ensemble returns
\* the union of the two lists without duplicates, in the order of its rank
\* fusion.
RETRIEVAL_K == 10
TopK(S) ==
    IF Cardinality(S) <= RETRIEVAL_K THEN {S}
    ELSE {T \in SUBSET S : Cardinality(T) = RETRIEVAL_K}

EnsembleResults ==
    {[semantic |-> sem, bm25 |-> lex, docs |-> l] :
        <<sem, lex, l>> \in
            {<<a, b, o>> \in TopK(store.semantic) \X TopK(store.bm25)
                              \X Orderings(store.semantic \cup store.bm25) :
                RangeOf(o) = a \cup b}}

RetrieveDocs ==
    /\ pc = "RETRIEVE_DOCS"
    /\ \E out \in CallResults(EnsembleResults) :
          LET state == sessions[turn.session]
              log == [turn EXCEPT !.trace = Append(@, pc),
                         !.retrieve_calls = Append(@, [query |-> RetrievalQuery(state),
                                                       out |-> out])]
          IN  IF out.raises
              THEN NodeRaises(log)
              ELSE /\ NodeReturns(log, retrieve_docs_node(state, out.value.docs))
                   /\ UNCHANGED hist
    /\ UNCHANGED <<gvars, ivars, svars>>

Agent ==
    /\ pc = "AGENT"
    /\ \E out \in CallResults(Answers(TurnsStarted)) :
          LET state == sessions[turn.session]
              log == [turn EXCEPT !.trace = Append(@, pc),
                         !.gen_calls = Append(@, [input |-> GenerationInput(state),
                                                  out |-> out])]
          IN  IF out.raises
              THEN NodeRaises(log)
              ELSE /\ NodeReturns(log, agent_node(state, out.value))
                   /\ hist' = [hist EXCEPT ![turn.session].expected =
                                   Append(@, <<"ai", out.value>>)]
    /\ UNCHANGED <<gvars, ivars, svars>>

Next ==
    \/ Setup
    \/ Invoke
    \/ QueryRewrite
    \/ RetrieveDocs
    \/ Agent

Spec == Init /\ [][Next]_vars

NextStore == Setup

SpecStore == InitStore /\ [][NextStore]_vars

IsPrefix(a, b) == Len(a) <= Len(b) /\ \A i \in 1..Len(a) : a[i] = b[i]
StageOrder == <<"QUERY_REWRITE", "RETRIEVE_DOCS", "AGENT">>

\* The stages of a turn so far are an initial part of the fixed order, each
\* entered only after the one before it returned; END is reached exactly
\* after all three returned; after an error the caller has the error and
\* no node is scheduled.
C1_TurnState ==
    /\ IsPrefix(turn.trace, StageOrder)
    /\ IsPrefix(turn.completed, turn.trace)
    /\ turn.outcome = "running" =>
           /\ turn.completed = turn.trace
           /\ Len(turn.trace) < Len(StageOrder)
           /\ pc = StageOrder[Len(turn.trace) + 1]
    /\ turn.outcome = "END" => turn.completed = StageOrder /\ pc = "idle"
    /\ turn.outcome = "error" =>
           /\ Len(turn.trace) = Len(turn.completed) + 1
           /\ pc = "idle"
    /\ pc \in {"QUERY_REWRITE", "RETRIEVE_DOCS", "AGENT"} => turn.outcome = "running"

\* A step either starts a new turn, or runs exactly the next stage of the
\* running one; a turn that ended (END or error) runs no further stage.
C1_TurnStep ==
    \/ turn' = turn
    \/ turn'.trace = <<>> /\ turn'.outcome = "running"
                          /\ turn.outcome \in {"none", "END", "error"}
    \/ /\ turn.outcome = "running"
       /\ turn'.trace = Append(turn.trace, StageOrder[Len(turn.trace) + 1])
       /\ turn'.session = turn.session

\* C1: every turn runs QUERY_REWRITE, RETRIEVE_DOCS, AGENT in that order,
\* each at most once and only after its predecessor returned, then END;
\* a stage that raises ends the turn with the error at the caller and no
\* later stage runs.
C1_LinearPipeline == []C1_TurnState /\ [][C1_TurnStep]_vars

\* One turn reached END and another one stopped at RETRIEVE_DOCS with an
\* error.
C1_Witness ==
    /\ turn.outcome = "error"
    /\ turn.trace = <<"QUERY_REWRITE", "RETRIEVE_DOCS">>
    /\ \E s \in SessionIds : hist[s].clean /\ hist[s].turns = 1
                             /\ Len(hist[s].expected) = 2

SeqAll(seq, P(_)) == \A i \in 1..Len(seq) : P(seq[i])

\* C6: with no passages ingested and no persisted directory,
\* setup_vector_store completes, and in a turn both retrievers find
\* nothing, the retrieval result is empty and the context given to the
\* generation call is empty.
C6_EmptyIndexServes ==
    (~HasDocuments(documents) /\ ~persist0.exists) =>
        /\ store.status # "raised"
        /\ SeqAll(turn.retrieve_calls, LAMBDA c :
               ~c.out.raises => /\ c.out.value.semantic = {}
                                /\ c.out.value.bm25 = {}
                                /\ c.out.value.docs = <<>>)
        /\ SeqAll(turn.gen_calls, LAMBDA c : c.input.context = Blank)

\* The rest of C6, which the code keeps whenever the empty BM25 retriever
\* can be built: retrieval is empty and the turn can reach END.
EmptyIndexTurnIsEmpty ==
    (~HasDocuments(documents) /\ ~persist0.exists) =>
        /\ SeqAll(turn.retrieve_calls, LAMBDA c :
               ~c.out.raises => c.out.value.docs = <<>>)
        /\ SeqAll(turn.gen_calls, LAMBDA c : c.input.context = Blank)

EmptyIndexTurnEnds ==
    /\ ~HasDocuments(documents) /\ ~persist0.exists
    /\ turn.outcome = "END"

Occurs(x, seq) == \E i \in 1..Len(seq) : seq[i] = x

\* C7: the directory is removed exactly when a non-empty passage list is
\* supplied and a directory exists, and before the index is created, so
\* the index then holds the supplied passages and nothing else; without
\* passages an existing directory is left as it was and loaded as it is.
C7_RebuildOnlyWithDocuments ==
    store.status # "none" =>
        /\ Occurs("rmtree", store.log) <=> (HasDocuments(documents) /\ persist0.exists)
        /\ Occurs("create", store.log) =>
               /\ HasDocuments(documents)
               /\ persist0.exists => store.log[1] = "rmtree"
               /\ store.log[Len(store.log)] = "create"
        /\ (HasDocuments(documents) /\ store.status = "ok") =>
               /\ store.db = DocSet(documents)
               /\ persist = Dir(DocSet(documents))
        /\ (~HasDocuments(documents) /\ persist0.exists) =>
               /\ persist = persist0
               /\ store.db = persist0.docs
               /\ store.log = <<"load">>

\* Passages were supplied over a directory holding an older passage; the
\* index was rebuilt and the older passage is gone.
C7_Witness ==
    /\ store.status = "ok"
    /\ HasDocuments(documents)
    /\ OldPassage \in persist0.docs
    /\ OldPassage \notin store.db
    /\ store.log = <<"rmtree", "rmtree", "create">>

Stripped(msgs) == [i \in 1..Len(msgs) |-> <<msgs[i].type, msgs[i].content>>]

\* C8: on a thread all of whose turns succeeded, the saved messages are the
\* user messages and the answers of its turns, in turn order, each once:
\* two per finished turn, user message first, no message repeated.
C8_HistoryExtended ==
    \A s \in SessionIds :
        hist[s].clean =>
            LET msgs == sessions[s].messages
            IN  /\ Stripped(msgs) = hist[s].expected
                /\ \A i, j \in 1..Len(msgs) : msgs[i].id = msgs[j].id => i = j
                /\ \A i \in 1..Len(msgs) :
                       msgs[i].type = IF i % 2 = 1 THEN "human" ELSE "ai"
                /\ (pc = "idle" \/ turn.session # s) =>
                       Len(msgs) = 2 * hist[s].turns

\* Two successful turns on the same thread.
C8_Witness ==
    /\ pc = "idle"
    /\ \E s \in SessionIds :
          /\ hist[s].clean
          /\ hist[s].turns = 2
          /\ Len(sessions[s].messages) = 4
          /\ sessions[s].messages[1].content # sessions[s].messages[3].content

\* The passages joined by blank lines, position by position.
JoinedContext(docs) ==
    [i \in 1..(IF docs = <<>> THEN 0 ELSE 2 * Len(docs) - 1) |->
        IF i % 2 = 1 THEN docs[(i + 1) \div 2] ELSE "\n\n"]

\* C9: a turn issues at most one generation call, after exactly one
\* successful retrieval of that turn, and the context of the call is the
\* passages that retrieval returned, in its order, joined by blank lines.
C9_ContextIsThisTurnsRetrieval ==
    /\ Len(turn.gen_calls) <= 1
    /\ SeqAll(turn.gen_calls, LAMBDA c :
           /\ Len(turn.retrieve_calls) = 1
           /\ ~turn.retrieve_calls[1].out.raises
           /\ c.input.context = JoinedContext(turn.retrieve_calls[1].out.value.docs))

\* A second turn on a thread, whose caller supplied a context of its own,
\* retrieved two passages and generated from their joined text.
C9_Witness ==
    /\ Len(turn.gen_calls) = 1
    /\ turn.variant = "caller_fields"
    /\ hist[turn.session].turns = 2
    /\ Len(turn.retrieve_calls[1].out.value.docs) = 2
    /\ turn.gen_calls[1].input.context # CallerContext
    /\ sessions[turn.session].context = turn.gen_calls[1].input.context

\* C10: retrieval runs after this turn's rewrite returned, and its query is
\* that rewrite when it is not empty; otherwise the original query this
\* turn's QUERY_REWRITE recorded, and if that is empty too the latest user
\* message.
C10_QueryIsThisTurnsRewrite ==
    SeqAll(turn.retrieve_calls, LAMBDA c :
        /\ Len(turn.rewrite_calls) = 1
        /\ ~turn.rewrite_calls[1].out.raises
        /\ turn.trace[1] = "QUERY_REWRITE"
        /\ LET rewritten == turn.rewrite_calls[1].out.value
               original == turn.rewrite_calls[1].input.human_question
           IN  c.query = IF rewritten # Blank THEN rewritten
                         ELSE IF original # Blank THEN original
                         ELSE turn.query)

\* In the second turn of a thread, invoked with the messages alone, the
\* rewrite came back empty and retrieval used the original query.
C10_Witness ==
    /\ Len(turn.retrieve_calls) = 1
    /\ hist[turn.session].turns = 2
    /\ turn.variant = "messages_only"
    /\ turn.rewrite_calls[1].out.value = Blank
    /\ turn.retrieve_calls[1].query = <<"q1">>

RetrieversShareSuppliedPassages ==
    (store.status = "ok" /\ HasDocuments(documents)) =>
        /\ store.semantic = DocSet(documents)
        /\ store.bm25 = DocSet(documents)

\* Setup returned with both retrievers built over the supplied passages.
RetrieversBuiltFromPassages ==
    /\ store.status = "ok"
    /\ HasDocuments(documents)
    /\ persist0.exists
    /\ store.bm25 = DocSet(documents)

\* The messages of a thread without its latest user message.
WithoutLastHuman(msgs) ==
    LET humans == {i \in 1..Len(msgs) : msgs[i].type = "human"}
    IN  IF humans = {} THEN msgs
        ELSE LET last == CHOOSE i \in humans : \A j \in humans : j <= i
             IN  SubSeq(msgs, 1, last - 1) \o SubSeq(msgs, last + 1, Len(msgs))

\* C12: the rewrite call of a turn gets the latest user question as the
\* question to rewrite and, as the conversation history, the messages of
\* the session without that latest user message.  (Until the turn reaches
\* END the thread's messages are those the rewrite node read.)
C12_RewriteHistoryIsPriorTurns ==
    (Len(turn.rewrite_calls) > 0 /\ turn.outcome # "END") =>
        LET c == turn.rewrite_calls[1]
            msgs == sessions[turn.session].messages
        IN  /\ c.input.human_question = turn.query
            /\ c.input.ai_human_session_conversation = WithoutLastHuman(msgs)

\* What the code does instead: the history handed over is the whole
\* thread, the latest user message included as its last element, and a
\* non-empty question is handed over as the question to rewrite.
RewriteHistoryIsWholeThread ==
    (Len(turn.rewrite_calls) > 0 /\ turn.outcome # "END") =>
        LET c == turn.rewrite_calls[1]
            msgs == sessions[turn.session].messages
            history == c.input.ai_human_session_conversation
        IN  /\ history = msgs
            /\ history[Len(history)].type = "human"
            /\ history[Len(history)].content = turn.query
            /\ turn.query # Blank => c.input.human_question = turn.query

\* A second turn of a thread: the history handed to the rewrite call holds
\* the first turn's two messages and the new question.
RewriteCalledInSecondTurn ==
    /\ Len(turn.rewrite_calls) = 1
    /\ turn.outcome = "running"
    /\ turn.query = <<"q1">>
    /\ Len(turn.rewrite_calls[1].input.ai_human_session_conversation) = 3

====
